---- MODULE Spec2Model ----
(***************************************************************************)
(* A model of phalanx.docs.models: Phalanx.load_phalanx and the two        *)
(* resolvers it calls, Application.load and Environment.load, plus the     *)
(* Environment.identity_provider accessor.                                 *)
(*                                                                         *)
(* Strings are sequences of one-character strings, so that str.replace,    *)
(* Path.stem, str.removeprefix, list.sort and re.search are computed on    *)
(* characters as Python computes them.  YAML documents are well formed     *)
(* mappings (yaml.safe_load does not raise); a mapping is a function whose *)
(* DOMAIN is its key set, so a KeyError is a key outside the DOMAIN.       *)
(* An environment document keeps its mandatory keys (fields) apart from    *)
(* its per-application keys (apps); the value under an application key is  *)
(* a mapping and "enabled", when present, is a boolean, so the TypeError   *)
(* of indexing a scalar is outside the model.  The accessors argocd_url,   *)
(* argocd_rbac_csv and gafaelfawr_roles are not modelled.                  *)
(***************************************************************************)
EXTENDS Naturals, Sequences, FiniteSets, TLC

VARIABLES
    env_files,    \* <root>/science-platform/values-*.yaml, in glob order
    app_dirs,     \* <root>/services/*: entry name -> directory contents
    templates,    \* <root>/science-platform/templates/: file name -> text
    pc,           \* position of load_phalanx
    env_todo,     \* number of env_files entries the pre-load loop has consumed
    env_values,   \* the dict env_values, as a list of items in insertion order
    app_todo,     \* entries of services/ that iterdir() has not yielded yet
    apps,         \* the list apps
    envs,         \* the list envs
    phalanx,      \* what load_phalanx returned: <<>> until it returns, then <<model>>
    idp           \* outcome of the last Environment.identity_provider read

vars == <<env_files, app_dirs, templates, pc, env_todo, env_values, app_todo,
          apps, envs, phalanx, idp>>

----------------------------------------------------------------------------
(* Characters and strings *)

\* The characters the model uses, in code point order.
Ascii ==
    << "\n", " ", "\"", "-", ".", "0", "1", ":",
       "A", "B", "C", "D", "E", "F", "G", "H", "I", "J", "K", "L", "M",
       "N", "O", "P", "Q", "R", "S", "T", "U", "V", "W", "X", "Y", "Z",
       "_",
       "a", "b", "c", "d", "e", "f", "g", "h", "i", "j", "k", "l", "m",
       "n", "o", "p", "q", "r", "s", "t", "u", "v", "w", "x", "y", "z",
       "{", "}" >>

Ord(c) == CHOOSE i \in DOMAIN Ascii : Ascii[i] = c

Letter == { Ascii[i] : i \in Ord("A")..Ord("Z") } \cup { Ascii[i] : i \in Ord("a")..Ord("z") }

\* The digits of Ascii
Digit == {"0", "1"}

\* The regular expression class [\w-]
WordOrHyphen == Letter \cup Digit \cup {"_", "-"}

Min(a, b) == IF a < b THEN a ELSE b

\* Python's str < str: lexicographic by code point, a proper prefix is smaller.
StrLess(s, t) ==
    \E k \in 1..(Min(Len(s), Len(t)) + 1) :
        /\ \A j \in 1..(k - 1) : s[j] = t[j]
        /\ \/ k = Len(s) + 1 /\ k <= Len(t)
           \/ k <= Len(s) /\ k <= Len(t) /\ Ord(s[k]) < Ord(t[k])

\* text.startswith(lit, i - 1), with i a 1-based index
StartsAt(text, i, lit) ==
    /\ i + Len(lit) - 1 <= Len(text)
    /\ \A j \in 1..Len(lit) : text[i + j - 1] = lit[j]

\* ReplaceHyphens without the substitution
ReplaceNothing(s) == s

\* str.replace("-", "_")
ReplaceHyphens(s) == [i \in 1..Len(s) |-> IF s[i] = "-" THEN "_" ELSE s[i]]

\* PurePath.stem: the final component without its last suffix.
Stem(name) ==
    LET dots == { i \in 2..Len(name) : name[i] = "." }
    IN  IF dots = {} \/ name[Len(name)] = "."
        THEN name
        ELSE SubSeq(name, 1, (CHOOSE i \in dots : \A j \in dots : j <= i) - 1)

\* str.removeprefix
RemovePrefix(s, p) ==
    IF StartsAt(s, 1, p) THEN SubSeq(s, Len(p) + 1, Len(s)) ELSE s

ARGOCD == <<"a", "r", "g", "o", "c", "d">>
GAFAELFAWR == <<"g", "a", "f", "a", "e", "l", "f", "a", "w", "r">>
UNKNOWN == <<"U", "n", "k", "n", "o", "w", "n">>
VALUES_PREFIX == <<"v", "a", "l", "u", "e", "s", "-">>
YAML_SUFFIX == <<".", "y", "a", "m", "l">>
APPLICATION_YAML ==
    <<"-", "a", "p", "p", "l", "i", "c", "a", "t", "i", "o", "n">> \o YAML_SUFFIX
DESTINATION == <<"d", "e", "s", "t", "i", "n", "a", "t", "i", "o", "n", ":", "\n">>
NAMESPACE_KEY == <<"n", "a", "m", "e", "s", "p", "a", "c", "e", ":">>

----------------------------------------------------------------------------
(* Mappings and lists *)

\* key in mapping
HasKey(m, k) == k \in DOMAIN m

\* DictSet as dict.setdefault: an existing key keeps its first value
DictSetKeepFirst(d, k, v) ==
    IF \E i \in 1..Len(d) : d[i].key = k THEN d ELSE Append(d, [key |-> k, val |-> v])

\* DictSet as list.append: one item per assignment
DictSetAppend(d, k, v) == Append(d, [key |-> k, val |-> v])

\* dict.__setitem__ on a dict kept as its list of items: an existing key keeps
\* its position and takes the new value, a new key is appended.
DictSet(d, k, v) ==
    IF \E i \in 1..Len(d) : d[i].key = k
    THEN [i \in 1..Len(d) |-> IF d[i].key = k THEN [key |-> k, val |-> v] ELSE d[i]]
    ELSE Append(d, [key |-> k, val |-> v])

\* list(dict.keys())
DictKeys(d) == [i \in 1..Len(d) |-> d[i].key]

Range(s) == { s[i] : i \in 1..Len(s) }

RECURSIVE Insert(_, _)
\* Place x after the elements of the sorted list s that are not greater (stable).
Insert(s, x) ==
    IF s = <<>> THEN <<x>>
    ELSE IF StrLess(x, Head(s)) THEN <<x>> \o s
    ELSE <<Head(s)>> \o Insert(Tail(s), x)

RECURSIVE SortStrings(_)
\* list.sort() on a list of str
SortStrings(s) ==
    IF s = <<>> THEN <<>>
    ELSE Insert(SortStrings(SubSeq(s, 1, Len(s) - 1)), s[Len(s)])

RECURSIVE InsertApp(_, _)
InsertApp(s, a) ==
    IF s = <<>> THEN <<a>>
    ELSE IF StrLess(a.name, Head(s).name) THEN <<a>> \o s
    ELSE <<Head(s)>> \o InsertApp(Tail(s), a)

RECURSIVE SortApps(_)
\* list.sort(key=lambda a: a.name) on a list of Application
SortApps(s) ==
    IF s = <<>> THEN <<>>
    ELSE InsertApp(SortApps(SubSeq(s, 1, Len(s) - 1)), s[Len(s)])

----------------------------------------------------------------------------
(* Application.load *)

\* The number of consecutive characters of class cls in text from index p on
\* (a greedy * that the rest of the pattern never forces to give back).
RunLen(text, p, cls) ==
    CHOOSE n \in 0..(Len(text) + 1 - Min(p, Len(text) + 1)) :
        /\ \A j \in 0..(n - 1) : text[p + j] \in cls
        /\ (p + n > Len(text) \/ text[p + n] \notin cls)

\* TokenStart with [\w-]* in place of [\w-]+
TokenStartOneChar(text, i) ==
    LET p1 == i + Len(DESTINATION)
        n1 == RunLen(text, p1, {" "})
        p2 == p1 + n1
        p3 == p2 + Len(NAMESPACE_KEY)
        n2 == RunLen(text, p3, {" "})
        p4 == p3 + n2
        q  == IF p4 <= Len(text) /\ text[p4] = "\"" THEN p4 + 1 ELSE p4
    IN  IF /\ StartsAt(text, i, DESTINATION)
           /\ n1 >= 1
           /\ StartsAt(text, p2, NAMESPACE_KEY)
           /\ q <= Len(text)
           /\ text[q] \in Letter
        THEN q
        ELSE 0

\* Where the token starts if the pattern
\*   destination:\n[ ]+namespace:[ ]*["]?(?P<namespace>[a-zA-Z][\w-]+)["]?
\* matches at index i of text, and 0 if it does not match there.
TokenStart(text, i) ==
    LET p1 == i + Len(DESTINATION)
        n1 == RunLen(text, p1, {" "})
        p2 == p1 + n1
        p3 == p2 + Len(NAMESPACE_KEY)
        n2 == RunLen(text, p3, {" "})
        p4 == p3 + n2
        q  == IF p4 <= Len(text) /\ text[p4] = "\"" THEN p4 + 1 ELSE p4
    IN  IF /\ StartsAt(text, i, DESTINATION)
           /\ n1 >= 1
           /\ StartsAt(text, p2, NAMESPACE_KEY)
           /\ q <= Len(text)
           /\ text[q] \in Letter
           /\ RunLen(text, q + 1, WordOrHyphen) >= 1
        THEN q
        ELSE 0

\* re.search(pattern, app_template): the set of indices where the pattern matches
MatchStarts(text) == { i \in 1..Len(text) : TokenStart(text, i) > 0 }

\* m.group("namespace") of the leftmost match
FirstToken(text) ==
    LET i == CHOOSE k \in MatchStarts(text) : \A j \in MatchStarts(text) : k <= j
        q == TokenStart(text, i)
    IN  SubSeq(text, q, q + RunLen(text, q + 1, WordOrHyphen))

\* The namespace Application.load extracts for app_name
Namespace(app_name, tpls) ==
    LET path == app_name \o APPLICATION_YAML
    IN  IF HasKey(tpls, path) /\ MatchStarts(tpls[path]) # {}
        THEN FirstToken(tpls[path])
        ELSE UNKNOWN

\* values: one entry per values-*.yaml of the application directory, keyed by
\* the file's stem without the "values-" prefix
AppValues(dir) ==
    LET envOf(f) == RemovePrefix(Stem(f), VALUES_PREFIX)
    IN  [e \in { envOf(f) : f \in DOMAIN dir } |->
            dir[CHOOSE f \in DOMAIN dir : envOf(f) = e]]

\* env_configs[reformatted_name]["enabled"] is True, a KeyError meaning no
Enabled(env_configs, key) ==
    /\ HasKey(env_configs.apps, key)
    /\ HasKey(env_configs.apps[key], "enabled")
    /\ env_configs.apps[key]["enabled"] = TRUE

\* IsActive without the argocd special case
IsActiveNoBootstrap(app_name, env_configs) ==
    Enabled(env_configs, ReplaceHyphens(app_name))

\* Whether the loop of Application.load appends env_name for app_name
IsActive(app_name, env_configs) ==
    \/ app_name = ARGOCD
    \/ Enabled(env_configs, ReplaceHyphens(app_name))

RECURSIVE SelectItems(_, _)
\* The keys of the items of d, in order, whose value satisfies the test for app_name
SelectItems(app_name, d) ==
    IF d = <<>> THEN <<>>
    ELSE (IF IsActive(app_name, Head(d).val) THEN <<Head(d).key>> ELSE <<>>)
         \o SelectItems(app_name, Tail(d))

\* ActiveEnvironments without active_environments.sort()
ActiveEnvironmentsUnsorted(app_name, ev) == SelectItems(app_name, ev)

\* active_environments of Application.load
ActiveEnvironments(app_name, ev) == SortStrings(SelectItems(app_name, ev))

\* Application.load(app_dir=..., root_dir=..., env_values=...)
ApplicationLoad(app_name, dir, tpls, ev) ==
    [ name |-> app_name,
      values |-> AppValues(dir),
      active_environments |-> ActiveEnvironments(app_name, ev),
      namespace |-> Namespace(app_name, tpls) ]

----------------------------------------------------------------------------
(* Environment *)

\* IsIncluded testing the key's presence instead of its enabled value
IsIncludedKeyPresent(app, values) ==
    \/ app.name = ARGOCD
    \/ HasKey(values.apps, app.name)

\* Whether the loop of Environment.load appends app
IsIncluded(app, values) ==
    \/ app.name = ARGOCD
    \/ Enabled(values, app.name)

RECURSIVE SelectApps(_, _)
SelectApps(values, applications) ==
    IF applications = <<>> THEN <<>>
    ELSE (IF IsIncluded(Head(applications), values) THEN <<Head(applications)>> ELSE <<>>)
         \o SelectApps(values, Tail(applications))

\* apps of Environment.load
EnvironmentApps(values, applications) == SortApps(SelectApps(values, applications))

\* Environment.load raises KeyError when a mandatory key is missing
EnvironmentLoadRaises(values) ==
    \/ ~HasKey(values.fields, "environment")
    \/ ~HasKey(values.fields, "fqdn")
    \/ ~HasKey(values.fields, "vault_path_prefix")

\* Environment.load(values=..., applications=...) when it does not raise
EnvironmentLoad(values, applications) ==
    [ name |-> values.fields["environment"],
      domain |-> values.fields["fqdn"],
      vault_path_prefix |-> values.fields["vault_path_prefix"],
      apps |-> EnvironmentApps(values, applications) ]

\* Environment.get_app: the first application of that name, or None
HasApp(e, name) == \E i \in 1..Len(e.apps) : e.apps[i].name = name

GetApp(e, name) ==
    e.apps[CHOOSE i \in 1..Len(e.apps) :
              /\ e.apps[i].name = name
              /\ \A j \in 1..(i - 1) : e.apps[j].name # name]

\* Environment.identity_provider; "KeyError" stands for the exception raised
IdentityProvider(e) ==
    IF ~HasApp(e, GAFAELFAWR) THEN "Unknown"
    ELSE LET v == GetApp(e, GAFAELFAWR).values
         IN  IF ~HasKey(v, e.name) THEN "KeyError"
             ELSE IF ~HasKey(v[e.name], "config") THEN "KeyError"
             ELSE LET config_values == v[e.name]["config"]
                  IN  IF "cilogon" \in config_values THEN "CILogon"
                      ELSE IF "github" \in config_values THEN "GitHub"
                      ELSE IF "oidc" \in config_values THEN "OIDC"
                      ELSE "Unknown"

----------------------------------------------------------------------------
(* The repository on disk *)

MaxDocs == 2

CERT_MANAGER == <<"c", "e", "r", "t", "-", "m", "a", "n", "a", "g", "e", "r">>
CERT_MANAGER_KEY == <<"c", "e", "r", "t", "_", "m", "a", "n", "a", "g", "e", "r">>
DEV == <<"d", "e", "v">>
PROD == <<"p", "r", "o", "d">>
FQDN == <<"x", ".", "i", "o">>
VAULT == <<"s", "e", "c", "r", "e", "t">>

NoKeys == [k \in {} |-> TRUE]
On == "enabled" :> TRUE
Off == "enabled" :> FALSE

\* An environment values document with every mandatory key
Doc(name, flags) ==
    [ fields |-> ("environment" :> name @@ "fqdn" :> FQDN @@ "vault_path_prefix" :> VAULT),
      apps |-> flags ]

\* The document d without its mandatory key k
Lacking(d, k) ==
    [d EXCEPT !.fields = [x \in (DOMAIN d.fields) \ {k} |-> d.fields[x]]]

File(d) == [is_file |-> TRUE, doc |-> d]

\* A directory entry named values-*.yaml that is not a regular file
NotAFile == [is_file |-> FALSE, doc |-> Doc(DEV, NoKeys)]

FlagSets ==
    { NoKeys,
      GAFAELFAWR :> On @@ CERT_MANAGER_KEY :> On,
      GAFAELFAWR :> Off @@ CERT_MANAGER :> On @@ ARGOCD :> Off,
      GAFAELFAWR :> NoKeys @@ CERT_MANAGER_KEY :> Off }

CompleteDocs == { Doc(n, f) : n \in {DEV, PROD}, f \in FlagSets }

EnvFiles ==
    { File(d) : d \in CompleteDocs }
    \cup { File(Lacking(Doc(DEV, GAFAELFAWR :> On), "environment")),
           File(Lacking(Doc(DEV, GAFAELFAWR :> On), "fqdn")),
           File(Lacking(Doc(PROD, NoKeys), "vault_path_prefix")),
           NotAFile }

SeqsUpTo(S, n) == UNION { [1..k -> S] : k \in 0..n }

ValuesFile(e) == VALUES_PREFIX \o e \o YAML_SUFFIX

\* Parsed per-environment values documents of an application
NoConfig == [k \in {} |-> {}]
Config(keys) == "config" :> keys

Dir(files) == [is_dir |-> TRUE, files |-> files]
NotADir == [is_dir |-> FALSE, files |-> NoKeys]

AppDirSets ==
    { a @@ g @@ c :
        a \in { NoKeys, ARGOCD :> Dir(NoKeys), ARGOCD :> Dir(ValuesFile(DEV) :> NoConfig) },
        g \in { NoKeys, GAFAELFAWR :> Dir(NoKeys),
                GAFAELFAWR :> Dir(ValuesFile(DEV) :> NoConfig),
                GAFAELFAWR :> Dir(ValuesFile(DEV) :> Config({"github", "oidc"})) },
        c \in { NoKeys, CERT_MANAGER :> Dir(NoKeys), CERT_MANAGER :> NotADir } }

MaxLines == 4

TemplatePath(app_name) == app_name \o APPLICATION_YAML

NamespaceLine(indent, gap, quote, token) ==
    indent \o NAMESPACE_KEY \o gap \o quote \o token \o quote \o <<"\n">>

\* Lines of a deployment template
TemplateLines ==
    { DESTINATION,
      NamespaceLine(<<" ", " ">>, <<" ">>, <<>>, <<"a", "b">>),
      NamespaceLine(<<" ">>, <<>>, <<"\"">>, <<"c", "-", "1">>),
      NamespaceLine(<<" ", " ">>, <<" ">>, <<>>, <<"a">>),
      NamespaceLine(<<>>, <<" ">>, <<>>, <<"a", "b">>) }

RECURSIVE Concat(_)
Concat(lines) == IF lines = <<>> THEN <<>> ELSE Head(lines) \o Concat(Tail(lines))

TemplateTexts == { Concat(ls) : ls \in SeqsUpTo(TemplateLines, MaxLines) }

TemplateSets ==
    { NoKeys }
    \cup { TemplatePath(ARGOCD) :> t : t \in TemplateTexts }
    \cup { TemplatePath(GAFAELFAWR) :>
              (DESTINATION \o NamespaceLine(<<" ">>, <<" ">>, <<>>, <<"a", "b">>)) }

InitWith(files, dirs, tpls) ==
    /\ env_files \in files
    /\ app_dirs \in dirs
    /\ templates \in tpls
    /\ pc = "preload"
    /\ env_todo = 0
    /\ env_values = <<>>
    /\ app_todo = DOMAIN app_dirs
    /\ apps = <<>>
    /\ envs = <<>>
    /\ phalanx = <<>>
    /\ idp = [env |-> 0, result |-> "unread"]

Init == InitWith(SeqsUpTo(EnvFiles, MaxDocs), AppDirSets, {NoKeys})

----------------------------------------------------------------------------
(* Phalanx.load_phalanx, one loop iteration per step *)

fs == <<env_files, app_dirs, templates>>

\* for env_values_path in ...glob("values-*.yaml"): an entry that is not a file
PreloadSkip ==
    /\ pc = "preload"
    /\ env_todo < Len(env_files)
    /\ ~env_files[env_todo + 1].is_file
    /\ env_todo' = env_todo + 1
    /\ UNCHANGED <<fs, pc, env_values, app_todo, apps, envs, phalanx, idp>>

\* name = values["environment"] raises KeyError
PreloadRaise ==
    /\ pc = "preload"
    /\ env_todo < Len(env_files)
    /\ env_files[env_todo + 1].is_file
    /\ ~HasKey(env_files[env_todo + 1].doc.fields, "environment")
    /\ pc' = "raised"
    /\ UNCHANGED <<fs, env_todo, env_values, app_todo, apps, envs, phalanx, idp>>

\* env_values[name] = values
PreloadStore ==
    /\ pc = "preload"
    /\ env_todo < Len(env_files)
    /\ env_files[env_todo + 1].is_file
    /\ HasKey(env_files[env_todo + 1].doc.fields, "environment")
    /\ LET values == env_files[env_todo + 1].doc
       IN  env_values' = DictSet(env_values, values.fields["environment"], values)
    /\ env_todo' = env_todo + 1
    /\ UNCHANGED <<fs, pc, app_todo, apps, envs, phalanx, idp>>

\* The pre-load loop is exhausted.
PreloadDone ==
    /\ pc = "preload"
    /\ env_todo = Len(env_files)
    /\ pc' = "gather_apps"
    /\ UNCHANGED <<fs, env_todo, env_values, app_todo, apps, envs, phalanx, idp>>

\* for app_dir in ...iterdir(): an entry that is not a directory
GatherAppSkip ==
    /\ pc = "gather_apps"
    /\ \E d \in app_todo :
        /\ ~app_dirs[d].is_dir
        /\ app_todo' = app_todo \ {d}
    /\ UNCHANGED <<fs, pc, env_todo, env_values, apps, envs, phalanx, idp>>

\* apps.append(Application.load(...)), iterdir() yielding in any order
GatherApp ==
    /\ pc = "gather_apps"
    /\ \E d \in app_todo :
        /\ app_dirs[d].is_dir
        /\ apps' = Append(apps, ApplicationLoad(d, app_dirs[d].files, templates, env_values))
        /\ app_todo' = app_todo \ {d}
    /\ UNCHANGED <<fs, pc, env_todo, env_values, envs, phalanx, idp>>

\* apps.sort(key=lambda a: a.name) once iterdir() is exhausted
GatherAppsDone ==
    /\ pc = "gather_apps"
    /\ app_todo = {}
    /\ apps' = SortApps(apps)
    /\ pc' = "gather_envs"
    /\ UNCHANGED <<fs, env_todo, env_values, app_todo, envs, phalanx, idp>>

\* GatherEnv not waiting for the applications loop to end
GatherEnvEarly ==
    /\ pc \in {"gather_apps", "gather_envs"}
    /\ Len(envs) < Len(env_values)
    /\ ~EnvironmentLoadRaises(env_values[Len(envs) + 1].val)
    /\ envs' = Append(envs, EnvironmentLoad(env_values[Len(envs) + 1].val, apps))
    /\ UNCHANGED <<fs, pc, env_todo, env_values, app_todo, apps, phalanx, idp>>

\* envs.append(Environment.load(values=values, applications=apps))
GatherEnv ==
    /\ pc = "gather_envs"
    /\ Len(envs) < Len(env_values)
    /\ ~EnvironmentLoadRaises(env_values[Len(envs) + 1].val)
    /\ envs' = Append(envs, EnvironmentLoad(env_values[Len(envs) + 1].val, apps))
    /\ UNCHANGED <<fs, pc, env_todo, env_values, app_todo, apps, phalanx, idp>>

\* Environment.load raises KeyError, which load_phalanx does not catch
GatherEnvRaise ==
    /\ pc = "gather_envs"
    /\ Len(envs) < Len(env_values)
    /\ EnvironmentLoadRaises(env_values[Len(envs) + 1].val)
    /\ pc' = "raised"
    /\ UNCHANGED <<fs, env_todo, env_values, app_todo, apps, envs, phalanx, idp>>

\* return cls(environments=envs, apps=apps)
Return ==
    /\ pc = "gather_envs"
    /\ Len(envs) = Len(env_values)
    /\ phalanx' = <<[environments |-> envs, apps |-> apps]>>
    /\ pc' = "returned"
    /\ UNCHANGED <<fs, env_todo, env_values, app_todo, apps, envs, idp>>

\* A consumer reads Environment.identity_provider of the returned model.
ReadIdentityProvider ==
    /\ pc = "returned"
    /\ \E i \in 1..Len(phalanx[1].environments) :
        idp' = [env |-> i, result |-> IdentityProvider(phalanx[1].environments[i])]
    /\ UNCHANGED <<fs, pc, env_todo, env_values, app_todo, apps, envs, phalanx>>

Next ==
    \/ PreloadSkip
    \/ PreloadRaise
    \/ PreloadStore
    \/ PreloadDone
    \/ GatherAppSkip
    \/ GatherApp
    \/ GatherAppsDone
    \/ GatherEnv
    \/ GatherEnvRaise
    \/ Return
    \/ ReadIdentityProvider

Spec == Init /\ [][Next]_vars

\* The same program over repositories that vary the deployment template of
\* one application.
InitNamespace ==
    InitWith({ <<f>> : f \in { File(Doc(DEV, GAFAELFAWR :> On)),
                               File(Lacking(Doc(DEV, NoKeys), "environment")),
                               File(Lacking(Doc(DEV, NoKeys), "fqdn")),
                               NotAFile } },
             { ARGOCD :> Dir(NoKeys) @@ CERT_MANAGER :> NotADir },
             TemplateSets)

SpecNamespace == InitNamespace /\ [][Next]_vars

----------------------------------------------------------------------------
(* Vocabulary of the properties *)

Names(list) == { list[i].name : i \in 1..Len(list) }

\* The mapping d declares key with "enabled" exactly true
DeclaresTrue(d, key) ==
    \E k \in DOMAIN d.apps :
        /\ k = key
        /\ "enabled" \in DOMAIN d.apps[k]
        /\ d.apps[k]["enabled"] = TRUE

\* The mapping d declares key with "enabled" false, or does not declare it
FalseOrAbsent(d, key) == ~DeclaresTrue(d, key)

Ascending(s) == \A i, j \in 1..Len(s) : i < j => ~StrLess(s[j], s[i])

StrictlyAscending(s) == \A i, j \in 1..Len(s) : i < j => StrLess(s[i], s[j])

NamesOf(list) == [i \in 1..Len(list) |-> list[i].name]

Returned == pc = "returned"

\* The indices of env_files that hold a regular file
Discovered == { i \in 1..Len(env_files) : env_files[i].is_file }

Mandatory == {"environment", "fqdn", "vault_path_prefix"}

LacksMandatory(i) == ~(Mandatory \subseteq DOMAIN env_files[i].doc.fields)

EnvOf(i) == env_files[i].doc.fields["environment"]

\* File i names an environment and no later file names the same one
LastOfItsName(i) ==
    /\ i \in Discovered
    /\ "environment" \in DOMAIN env_files[i].doc.fields
    /\ \A j \in Discovered :
          (j > i /\ "environment" \in DOMAIN env_files[j].doc.fields) => EnvOf(j) # EnvOf(i)

\* File i names an environment and no earlier file names the same one
FirstOfItsName(i) ==
    /\ i \in Discovered
    /\ "environment" \in DOMAIN env_files[i].doc.fields
    /\ \A j \in Discovered :
          (j < i /\ "environment" \in DOMAIN env_files[j].doc.fields) => EnvOf(j) # EnvOf(i)

----------------------------------------------------------------------------
(* C1 *)

\* C1: every Environment built by Environment.load from document d and the
\* application list L has apps sorted ascending by name, and an application of
\* L is in apps exactly when it is argocd or d declares, under the
\* application's exact name, enabled: true.
C1_EnvAppsExact ==
    \A i \in 1..Len(envs) :
        LET e == envs[i]
            d == env_values[i].val
        IN  /\ Ascending(NamesOf(e.apps))
            /\ Range(e.apps) \subseteq Range(apps)
            /\ \A x \in Range(apps) :
                  /\ (x \in Range(e.apps)) <=> (x.name = ARGOCD \/ DeclaresTrue(d, x.name))
                  /\ (x.name # ARGOCD /\ FalseOrAbsent(d, x.name)) => x \notin Range(e.apps)

C1_Witness ==
    \E i \in 1..Len(envs) :
        /\ Len(envs[i].apps) >= 2
        /\ \E x \in Range(apps) :
              /\ x \notin Range(envs[i].apps)
              /\ x.name \in DOMAIN env_values[i].val.apps

----------------------------------------------------------------------------
(* C2 *)

\* C2: in the returned model every application's active_environments is
\* sorted ascending without duplicates and names only environments of the model.
C2_ActiveSorted ==
    Returned =>
        \A a \in Range(phalanx[1].apps) :
            /\ StrictlyAscending(a.active_environments)
            /\ Range(a.active_environments) \subseteq Names(phalanx[1].environments)

C2_Witness ==
    /\ Returned
    /\ DictKeys(env_values) = <<PROD, DEV>>
    /\ \E a \in Range(phalanx[1].apps) : a.name # ARGOCD /\ Len(a.active_environments) = 2

----------------------------------------------------------------------------
(* C3 *)

\* C3: if an application named argocd exists then, in the returned model, its
\* active_environments are all the environment names and it is in every
\* Environment's apps.
C3_BootstrapEverywhere ==
    Returned =>
        \A a \in Range(phalanx[1].apps) :
            a.name = ARGOCD =>
                /\ Range(a.active_environments) = Names(phalanx[1].environments)
                /\ Len(a.active_environments) = Len(phalanx[1].environments)
                /\ \A e \in Range(phalanx[1].environments) : a \in Range(e.apps)

C3_Witness ==
    /\ Returned
    /\ Len(phalanx[1].environments) = 2
    /\ \E a \in Range(phalanx[1].apps) : a.name = ARGOCD /\ DOMAIN a.values = {}
    /\ \E i \in 1..Len(env_values) :
          ARGOCD \in DOMAIN env_values[i].val.apps /\ ~DeclaresTrue(env_values[i].val, ARGOCD)
    /\ \E i \in 1..Len(env_values) : ARGOCD \notin DOMAIN env_values[i].val.apps

----------------------------------------------------------------------------
(* C4 *)

NoValuesFiles(a) == DOMAIN app_dirs[a.name].files = {}

\* C4 as claimed: an application directory without values files yields
\* values == {} and, unless it is argocd, active_environments == [],
\* whatever the environment documents declare.
C4_Claimed ==
    \A a \in Range(apps) :
        NoValuesFiles(a) =>
            /\ DOMAIN a.values = {}
            /\ a.name # ARGOCD => a.active_environments = <<>>

\* C4 amended: an application directory without values files yields
\* values == {}; its active_environments do not depend on the values files:
\* unless it is argocd they are exactly the environments whose document
\* declares enabled: true under the application's name with underscores for
\* hyphens, so they are [] only when no environment document enables it.
C4_NoValuesFiles ==
    \A a \in Range(apps) :
        NoValuesFiles(a) =>
            /\ DOMAIN a.values = {}
            /\ a.name # ARGOCD =>
                  Range(a.active_environments) =
                      { env_values[i].key : i \in
                          { j \in 1..Len(env_values) :
                              DeclaresTrue(env_values[j].val,
                                  [n \in 1..Len(a.name) |->
                                      IF a.name[n] = "-" THEN "_" ELSE a.name[n]]) } }

C4_Witness ==
    \E a \in Range(apps) :
        /\ NoValuesFiles(a)
        /\ a.name = CERT_MANAGER
        /\ a.active_environments # <<>>

----------------------------------------------------------------------------
(* C5 *)

\* C5: identity_provider never raises and returns one of the four kinds; it
\* returns "Unknown" when gafaelfawr is not among the environment's apps,
\* when gafaelfawr has no values document for the environment, and when that
\* document has no config key.
C5_Claimed ==
    idp.env # 0 =>
        LET e == phalanx[1].environments[idp.env]
        IN  /\ idp.result \in {"CILogon", "GitHub", "OIDC", "Unknown"}
            /\ GAFAELFAWR \notin Names(e.apps) => idp.result = "Unknown"
            /\ \A a \in Range(e.apps) :
                  (/\ a.name = GAFAELFAWR
                   /\ \/ e.name \notin DOMAIN a.values
                      \/ "config" \notin DOMAIN a.values[e.name])
                  => idp.result = "Unknown"

----------------------------------------------------------------------------
(* C6 *)

Fatal ==
    \E i \in Discovered :
        \/ "environment" \notin DOMAIN env_files[i].doc.fields
        \/ LastOfItsName(i) /\ LacksMandatory(i)

----------------------------------------------------------------------------
(* C7 *)

\* The k-th smallest element of the set of indices S
Kth(S, k) == CHOOSE i \in S : Cardinality({ j \in S : j <= i }) = k

----------------------------------------------------------------------------
(* C8 *)

\* C8: in the returned model an application is in an Environment's apps
\* exactly when the Environment's name is in the application's
\* active_environments.
C8_Claimed ==
    Returned =>
        \A a \in Range(phalanx[1].apps) :
            \A e \in Range(phalanx[1].environments) :
                (a.name \in Names(e.apps)) <=> (e.name \in Range(a.active_environments))

----------------------------------------------------------------------------
(* C9 *)

\* C9: the environment documents are all parsed before the first application
\* is resolved, and every application is resolved and the list sorted before
\* the first Environment is resolved; the environments are all resolved
\* against that same complete list.
C9_AppsBeforeEnvs ==
    [][ /\ env_values' # env_values =>
              (apps = <<>> /\ envs = <<>> /\ app_todo = DOMAIN app_dirs)
        /\ apps' # apps =>
              (env_todo = Len(env_files) /\ env_values' = env_values
               /\ envs = <<>> /\ envs' = <<>>)
        /\ envs' # envs =>
              (/\ env_todo = Len(env_files)
               /\ app_todo = {}
               /\ apps' = apps
               /\ Names(apps) = { d \in DOMAIN app_dirs : app_dirs[d].is_dir }
               /\ Ascending(NamesOf(apps))
               /\ Range(envs'[Len(envs')].apps) \subseteq Range(apps)) ]_vars

C9_Witness ==
    /\ pc = "gather_envs"
    /\ Len(envs) = 2
    /\ Len(apps) = 3

----------------------------------------------------------------------------
(* C10 *)

\* The template of application a exists as a file
HasTemplate(a) == TemplatePath(a.name) \in DOMAIN templates

TemplateOf(a) == templates[TemplatePath(a.name)]

AllIn(text, from, to, cls) == \A j \in from..to : j <= Len(text) /\ text[j] \in cls

\* At index i of text ends a "destination:" line, immediately followed by a
\* line of n >= 1 spaces and "namespace:".
FieldAt(text, i, n) ==
    /\ n >= 1
    /\ StartsAt(text, i, DESTINATION)
    /\ AllIn(text, i + Len(DESTINATION), i + Len(DESTINATION) + n - 1, {" "})
    /\ StartsAt(text, i + Len(DESTINATION) + n, NAMESPACE_KEY)

FieldIndents(text, i) ==
    IF StartsAt(text, i, DESTINATION)
    THEN { n \in 1..Len(text) : FieldAt(text, i, n) }
    ELSE {}

HasNamespaceField(text) == \E i \in 1..Len(text) : FieldIndents(text, i) # {}

\* Where a token may start after the "namespace:" that ends before index p:
\* after any number of spaces and an optional double quote, at a letter.
TokenBegins(text, p) ==
    { q \in p..Len(text) :
        /\ text[q] \in Letter
        /\ \E qt \in {0, 1} :
              /\ q - qt >= p
              /\ AllIn(text, p, q - qt - 1, {" "})
              /\ qt = 1 => text[q - 1] = "\"" }

\* Where the token that starts at q ends: it takes one or more letters,
\* digits, underscores or hyphens after its first letter, as many as there are.
TokenEnds(text, q) ==
    { e \in (q + 1)..Len(text) :
        /\ AllIn(text, q + 1, e, WordOrHyphen)
        /\ (e = Len(text) \/ text[e + 1] \notin WordOrHyphen) }

\* The tokens carried by a namespace field at index i
TokensAt(text, i) ==
    UNION { UNION { { SubSeq(text, q, e) : e \in TokenEnds(text, q) } :
                    q \in TokenBegins(text, i + Len(DESTINATION) + n + Len(NAMESPACE_KEY)) } :
            n \in FieldIndents(text, i) }

TokenStarts(text) == { i \in 1..Len(text) : TokensAt(text, i) # {} }

\* C10 as claimed: namespace is "Unknown" when the template file does not
\* exist or has no destination: line immediately followed by an indented
\* namespace: field, and otherwise it is the first captured token.
C10_Claimed ==
    \A a \in Range(apps) :
        IF ~HasTemplate(a) \/ ~HasNamespaceField(TemplateOf(a))
        THEN a.namespace = UNKNOWN
        ELSE LET starts == TokenStarts(TemplateOf(a))
             IN  /\ starts # {}
                 /\ TokensAt(TemplateOf(a), CHOOSE i \in starts : \A j \in starts : i <= j)
                        = {a.namespace}

\* C10 amended: namespace is never absent and no case raises; it is "Unknown"
\* when the template file does not exist or nowhere holds a destination: line
\* immediately followed by an indented namespace: field whose value is, after
\* an optional double quote, a letter followed by at least one letter, digit,
\* underscore or hyphen (a field whose value is a single character is no
\* match); otherwise it is that token of the first such field.
C10_Namespace ==
    \A a \in Range(apps) :
        IF ~HasTemplate(a) \/ TokenStarts(TemplateOf(a)) = {}
        THEN a.namespace = UNKNOWN
        ELSE LET starts == TokenStarts(TemplateOf(a))
             IN  /\ starts # {}
                 /\ TokensAt(TemplateOf(a), CHOOSE i \in starts : \A j \in starts : i <= j)
                        = {a.namespace}

C10_Witness ==
    \E a \in Range(apps) :
        /\ HasTemplate(a)
        /\ Cardinality(TokenStarts(TemplateOf(a))) = 2
        /\ a.namespace = <<"c", "-", "1">>

====
